---- MODULE Spec2Model ----
(***************************************************************************)
(* A model of the Volatility plugin "bitlocker" (src/bitlocker.py): the    *)
(* AES key-schedule validator validSchedule, the pool sweep of calculate   *)
(* and the output loop of render_text.                                     *)
(*                                                                         *)
(* Python lists and strings are 0-indexed, TLA+ sequences 1-indexed: the   *)
(* Python element x[k] is the TLA+ element x[k+1], and the Python slice    *)
(* x[a:b] is Slice(x, a, b).                                               *)
(***************************************************************************)
EXTENDS Integers, Sequences, FiniteSets, TLC

----------------------------------------------------------------------------
(* Bytes and the Python operators used on them *)

Byte == 0..255

\* bit k of the byte a
Bit(a, k) == (a \div (2 ^ k)) % 2

\* Python's a ^ b on two byte values
Xor(a, b) ==
      ((Bit(a, 0) + Bit(b, 0)) % 2)
    + ((Bit(a, 1) + Bit(b, 1)) % 2) * 2
    + ((Bit(a, 2) + Bit(b, 2)) % 2) * 4
    + ((Bit(a, 3) + Bit(b, 3)) % 2) * 8
    + ((Bit(a, 4) + Bit(b, 4)) % 2) * 16
    + ((Bit(a, 5) + Bit(b, 5)) % 2) * 32
    + ((Bit(a, 6) + Bit(b, 6)) % 2) * 64
    + ((Bit(a, 7) + Bit(b, 7)) % 2) * 128

Min(a, b) == IF a < b THEN a ELSE b
Max(a, b) == IF a > b THEN a ELSE b

\* Python's x[a:b] for 0 <= a: the slice is cut at the end of x, never an error
Slice(x, a, b) == SubSeq(x, a + 1, Min(b, Len(x)))

----------------------------------------------------------------------------
(* The constant tables of the class *)

sbox ==
    << 
        99, 124, 119, 123, 242, 107, 111, 197,  48,   1, 103,  43, 254, 215, 171, 118,
       202, 130, 201, 125, 250,  89,  71, 240, 173, 212, 162, 175, 156, 164, 114, 192,
       183, 253, 147,  38,  54,  63, 247, 204,  52, 165, 229, 241, 113, 216,  49,  21,
         4, 199,  35, 195,  24, 150,   5, 154,   7,  18, 128, 226, 235,  39, 178, 117,
         9, 131,  44,  26,  27, 110,  90, 160,  82,  59, 214, 179,  41, 227,  47, 132,
        83, 209,   0, 237,  32, 252, 177,  91, 106, 203, 190,  57,  74,  76,  88, 207,
       208, 239, 170, 251,  67,  77,  51, 133,  69, 249,   2, 127,  80,  60, 159, 168,
        81, 163,  64, 143, 146, 157,  56, 245, 188, 182, 218,  33,  16, 255, 243, 210,
       205,  12,  19, 236,  95, 151,  68,  23, 196, 167, 126,  61, 100,  93,  25, 115,
        96, 129,  79, 220,  34,  42, 144, 136,  70, 238, 184,  20, 222,  94,  11, 219,
       224,  50,  58,  10,  73,   6,  36,  92, 194, 211, 172,  98, 145, 149, 228, 121,
       231, 200,  55, 109, 141, 213,  78, 169, 108,  86, 244, 234, 101, 122, 174,   8,
       186, 120,  37,  46,  28, 166, 180, 198, 232, 221, 116,  31,  75, 189, 139, 138,
       112,  62, 181, 102,  72,   3, 246,  14,  97,  53,  87, 185, 134, 193,  29, 158,
       225, 248, 152,  17, 105, 217, 142, 148, 155,  30, 135, 233, 206,  85,  40, 223,
       140, 161, 137,  13, 191, 230,  66, 104,  65, 153,  45,  15, 176,  84, 187,  22 >>

Rcon ==
    <<
       141,   1,   2,   4,   8,  16,  32,  64, 128,  27,  54, 108, 216, 171,  77, 154,
        47,  94, 188,  99, 198, 151,  53, 106, 212, 179, 125, 250, 239, 197, 145,  57,
       114, 228, 211, 189,  97, 194, 159,  37,  74, 148,  51, 102, 204, 131,  29,  58,
       116, 232, 203, 141,   1,   2,   4,   8,  16,  32,  64, 128,  27,  54, 108, 216,
       171,  77, 154,  47,  94, 188,  99, 198, 151,  53, 106, 212, 179, 125, 250, 239,
       197, 145,  57, 114, 228, 211, 189,  97, 194, 159,  37,  74, 148,  51, 102, 204,
       131,  29,  58, 116, 232, 203, 141,   1,   2,   4,   8,  16,  32,  64, 128,  27,
        54, 108, 216, 171,  77, 154,  47,  94, 188,  99, 198, 151,  53, 106, 212, 179,
       125, 250, 239, 197, 145,  57, 114, 228, 211, 189,  97, 194, 159,  37,  74, 148,
        51, 102, 204, 131,  29,  58, 116, 232, 203, 141,   1,   2,   4,   8,  16,  32,
        64, 128,  27,  54, 108, 216, 171,  77, 154,  47,  94, 188,  99, 198, 151,  53,
       106, 212, 179, 125, 250, 239, 197, 145,  57, 114, 228, 211, 189,  97, 194, 159,
        37,  74, 148,  51, 102, 204, 131,  29,  58, 116, 232, 203, 141,   1,   2,   4,
         8,  16,  32,  64, 128,  27,  54, 108, 216, 171,  77, 154,  47,  94, 188,  99,
       198, 151,  53, 106, 212, 179, 125, 250, 239, 197, 145,  57, 114, 228, 211, 189,
        97, 194, 159,  37,  74, 148,  51, 102, 204, 131,  29,  58, 116, 232, 203 >>

----------------------------------------------------------------------------
VARIABLES
    fipsSBox,         \* FIPS-197's S-box, tabulated in Init, never changed
    \* one call of validSchedule
    frame,            \* its locals and its position
    \* calculate
    windows_version,  \* (major, minor) of the profile
    pool_tag,         \* the local pool_tag
    scanner_tag,      \* the tag of the scanner's PoolTagCheck
    image,            \* the pools the scanner has yet to return
    buf,              \* the bytes of the pool being swept
    pool_size,
    aes,              \* the keys appended so far
    found,            \* history: offset and key size of each append to aes
    i,                \* the loop variable of the running sweep
    n128, n256,       \* history: the number of offsets each sweep has tested
    pc,               \* the position in calculate
    yielded,          \* the results yielded for the pool being swept
    \* render_text
    DUMP_DIR,         \* whether the option is set
    data,             \* the sorted results
    pos,              \* the position of the for loop in data
    outfd,            \* what was written to outfd
    files,            \* the key files written
    failed,           \* history: the position in data whose open() raised
    rpc               \* the position in render_text

validVars == << frame >>
calcVars == << windows_version, pool_tag, scanner_tag, image, buf, pool_size, aes,
               found, i, n128, n256, pc, yielded >>
renderVars == << DUMP_DIR, data, pos, outfd, files, failed, rpc >>
vars == << fipsSBox, validVars, calcVars, renderVars >>

None == "None"

----------------------------------------------------------------------------
(* The numbers of calculate: the key and schedule sizes it passes to        *)
(* validSchedule, the first offset of its sweeps, and the pool size its      *)
(* scanner's CheckPoolSize check requires a pool to exceed.                  *)

KeySize128 == 16
ScheduleSize128 == 176
KeySize256 == 32
ScheduleSize256 == 240
HeaderSkip == 8
MinPoolSize == 184

----------------------------------------------------------------------------
(* rotate, core *)

rotate(word) == Slice(word, 1, Len(word)) \o Slice(word, 0, 1)

\* core with the round constant read one entry early
coreRconEarly(word, iteration) ==
    LET r == rotate(word)
        s == [n \in 1..4 |-> sbox[r[n] + 1]]
    IN  [s EXCEPT ![1] = Xor(s[1], Rcon[iteration])]

core(word, iteration) ==
    LET r == rotate(word)
        s == [n \in 1..4 |-> sbox[r[n] + 1]]
    IN  [s EXCEPT ![1] = Xor(s[1], Rcon[iteration + 1])]

----------------------------------------------------------------------------
(* validSchedule as a step machine.  A frame holds the locals of one call;  *)
(* pc is the position in the body: "while" is the loop test of the while    *)
(* statement, "for" the head of `for m in range(4)`, "return" the end of    *)
(* the call.  result is "True", "False", or the exception the call raised.  *)

\* the locals after `key = keySchedule[:size]` ... `currentSize += size`;
\* key[j] raises IndexError when the window holds fewer than size bytes
validScheduleEnter(keySchedule, size, expandedKeySize) ==
    LET key == Slice(keySchedule, 0, size)
        base == [keySchedule |-> keySchedule, size |-> size,
                 expandedKeySize |-> expandedKeySize,
                 expandedKey |-> [j \in 1..expandedKeySize |-> 0],
                 currentSize |-> 0, rconIteration |-> 1,
                 t |-> <<>>, m |-> 0, compared |-> 0,
                 pc |-> "return", result |-> "IndexError"]
    IN  IF Len(key) < size \/ expandedKeySize < size
        THEN base
        ELSE [base EXCEPT
                !.expandedKey = [j \in 1..expandedKeySize |->
                                    IF j <= size THEN key[j] ELSE 0],
                !.currentSize = size,
                !.pc = "while", !.result = "none"]

\* the words of t at the top of one pass of the while loop
NextWord(f) ==
    LET t0 == Slice(f.expandedKey, f.currentSize - 4, f.currentSize)
        t1 == IF f.currentSize % f.size = 0
              THEN core(t0, f.rconIteration) ELSE t0
    IN  IF f.size = 32 /\ (f.currentSize % f.size) = 16
        THEN [l \in 1..4 |-> sbox[t1[l] + 1]]
        ELSE t1

\* the loop test, and the statements up to the for loop
validScheduleWhile(f) ==
    IF f.currentSize < f.expandedKeySize
    THEN [f EXCEPT !.t = NextWord(f),
                   !.rconIteration = IF f.currentSize % f.size = 0
                                     THEN @ + 1 ELSE @,
                   !.m = 0, !.pc = "for"]
    ELSE [f EXCEPT !.pc = "return", !.result = "True"]

\* the pass without its `return False`: a mismatch is passed over
validScheduleForNoExit(f) ==
    LET b == Xor(f.expandedKey[f.currentSize - f.size + 1], f.t[f.m + 1])
        e == [f.expandedKey EXCEPT ![f.currentSize + 1] = b]
    IN  IF f.currentSize >= Len(f.keySchedule)
        THEN [f EXCEPT !.expandedKey = e,
                       !.pc = "return", !.result = "IndexError"]
        ELSE [f EXCEPT !.expandedKey = e, !.compared = @ + 1,
                       !.currentSize = @ + 1,
                       !.m = @ + 1,
                       !.pc = IF f.m = 3 THEN "while" ELSE "for"]

\* one pass of `for m in range(4)`; compared counts the comparisons made
validScheduleFor(f) ==
    LET b == Xor(f.expandedKey[f.currentSize - f.size + 1], f.t[f.m + 1])
        e == [f.expandedKey EXCEPT ![f.currentSize + 1] = b]
    IN  IF f.currentSize >= Len(f.keySchedule)
        THEN [f EXCEPT !.expandedKey = e,
                       !.pc = "return", !.result = "IndexError"]
        ELSE IF b # f.keySchedule[f.currentSize + 1]
        THEN [f EXCEPT !.expandedKey = e, !.compared = @ + 1,
                       !.pc = "return", !.result = "False"]
        ELSE [f EXCEPT !.expandedKey = e, !.compared = @ + 1,
                       !.currentSize = @ + 1,
                       !.m = @ + 1,
                       !.pc = IF f.m = 3 THEN "while" ELSE "for"]

validScheduleStep(f) ==
    IF f.pc = "while" THEN validScheduleWhile(f) ELSE validScheduleFor(f)

\* at most n steps of the call, stopping at its return; the steps are split
\* in halves so that the evaluation nests no deeper than the logarithm of n
RECURSIVE validScheduleSteps(_, _)
validScheduleSteps(f0, n) ==
    CHOOSE r \in { IF f.pc = "return" THEN f
                   ELSE IF n <= 1 THEN validScheduleStep(f)
                   ELSE validScheduleSteps(validScheduleSteps(f, n \div 2),
                                           n - (n \div 2))
                   : f \in {f0} } : TRUE

\* the call run to its end: it takes fewer than 2 * expandedKeySize steps
validScheduleRun(f) == validScheduleSteps(f, 2 * f.expandedKeySize)

\* the outcome of the call validSchedule(keySchedule, size, expandedKeySize)
validSchedule(keySchedule, size, expandedKeySize) ==
    validScheduleRun(validScheduleEnter(keySchedule, size, expandedKeySize)).result

----------------------------------------------------------------------------
(* FIPS-197, section 5.2: the key expansion the claims compare against.    *)
(* It is written from the standard (words, SubWord, RotWord, Rcon as powers *)
(* of x in GF(2^8), the S-box as inverse and affine map), not from the      *)
(* plugin's tables.  fipsSBox holds the S-box, tabulated once in Init and    *)
(* never changed.                                                           *)

FipsXtime(a) == IF a >= 128 THEN Xor((2 * a) % 256, 27) ELSE 2 * a

\* a * x^k in GF(2^8)
FipsTimesX(a, k) ==
    LET p1 == FipsXtime(a)
        p2 == FipsXtime(p1)
        p3 == FipsXtime(p2)
        p4 == FipsXtime(p3)
        p5 == FipsXtime(p4)
        p6 == FipsXtime(p5)
        p7 == FipsXtime(p6)
    IN  << a, p1, p2, p3, p4, p5, p6, p7 >>[k + 1]

\* the product in GF(2^8) modulo x^8 + x^4 + x^3 + x + 1
FipsMul(a, b) ==
    LET term(k) == IF Bit(b, k) = 1 THEN FipsTimesX(a, k) ELSE 0
    IN  Xor(Xor(Xor(term(0), term(1)), Xor(term(2), term(3))),
            Xor(Xor(term(4), term(5)), Xor(term(6), term(7))))

FipsInverse(a) == IF a = 0 THEN 0 ELSE CHOOSE x \in 1..255 : FipsMul(a, x) = 1

FipsRotl(a, k) == ((a * (2 ^ k)) % 256) + (a \div (2 ^ (8 - k)))

FipsAffine(a) ==
    Xor(Xor(Xor(a, FipsRotl(a, 1)), Xor(FipsRotl(a, 2), FipsRotl(a, 3))),
        Xor(FipsRotl(a, 4), 99))

\* the S-box of FIPS-197, section 5.1.1, as a table over the bytes
FipsSBoxTable == [a \in Byte |-> FipsAffine(FipsInverse(a))]

\* Rcon[i] = x^(i-1), for the rounds AES-128 and AES-256 use
FipsRcon(n) == FipsTimesX(IF n > 8 THEN 27 ELSE 1, (n - 1) % 8)

FipsSubWord(w) == [k \in 1..4 |-> fipsSBox[w[k]]]
FipsRotWord(w) == << w[2], w[3], w[4], w[1] >>
FipsXorWord(u, v) == [k \in 1..4 |-> Xor(u[k], v[k])]

\* the word w[i] of the standard's loop, from the words w[0] .. w[i-1]
FipsNextWord(w, Nk) ==
    LET n == Len(w)
        prev == w[n]
        temp == IF n % Nk = 0
                THEN [FipsSubWord(FipsRotWord(prev)) EXCEPT
                         ![1] = Xor(@, FipsRcon(n \div Nk))]
                ELSE IF Nk > 6 /\ n % Nk = 4 THEN FipsSubWord(prev)
                ELSE prev
    IN  FipsXorWord(w[n - Nk + 1], temp)

\* the words w[0] .. w[nWords-1], from the words of the key
RECURSIVE FipsWords(_, _, _)
FipsWords(key, Nk, nWords) ==
    CHOOSE r \in { IF Len(w) >= nWords THEN w
                   ELSE FipsWords(Append(w, FipsNextWord(w, Nk)), Nk, nWords)
                   : w \in {key} } : TRUE

FipsFlatten(w) ==
    [k \in 1..(4 * Len(w)) |-> w[((k - 1) \div 4) + 1][((k - 1) % 4) + 1]]

\* the expanded key (Nb * (Nr + 1) words, Nr = Nk + 6) of a key of 4 * Nk bytes
FipsKeyExpansion(key) ==
    LET Nk == Len(key) \div 4
        w0 == [n \in 1..Nk |-> SubSeq(key, (4 * n) - 3, 4 * n)]
    IN  FipsFlatten(FipsWords(w0, Nk, 4 * (Nk + 7)))

----------------------------------------------------------------------------
(* The inputs: seed keys, and windows built from them *)

\* how many of the seeds of each table the model draws from
NumSeeds == 2

SeedTable16 ==
    << [j \in 1..16 |-> j - 1],
       << 43, 126, 21, 22, 40, 174, 210, 166, 171, 247, 21, 136, 9, 207, 79, 60 >>,
       [j \in 1..16 |-> 0],
       [j \in 1..16 |-> 255] >>

SeedTable32 ==
    << [j \in 1..32 |-> j - 1],
       << 96, 61, 235, 16, 21, 202, 113, 190, 43, 115, 174, 240, 133, 125, 119, 129,
          31, 53, 44, 7, 59, 97, 8, 215, 45, 152, 16, 163, 9, 20, 223, 244 >>,
       [j \in 1..32 |-> 0],
       [j \in 1..32 |-> 255] >>

SeedTable(size) == IF size = KeySize128 THEN SeedTable16 ELSE SeedTable32
SeedIndex == 1..Min(NumSeeds, Len(SeedTable16))

\* the pairs (keySize, totalLength) calculate calls validSchedule with
Shapes == { << KeySize128, ScheduleSize128 >>, << KeySize256, ScheduleSize256 >> }

\* seed || schedule(seed)
ValidBlock(seed) == FipsKeyExpansion(seed)

\* the bit patterns a byte of a window is altered by
Deltas == { 1, 128 }

\* the lengths a window is cut to
CutLengths(size, total) == { 0, 1, size - 1, size, size + 1, total - 4, total - 1 }

Uniform(b, n) == [j \in 1..n |-> b]

\* the windows of one shape: valid ones, valid ones with one byte altered,
\* prefixes of valid ones, and windows of one repeated byte
Windows(size, total) ==
    LET valid == { ValidBlock(SeedTable(size)[s]) : s \in SeedIndex }
    IN  valid
        \cup { [w EXCEPT ![p] = Xor(@, d)] : w \in valid, p \in 1..total, d \in Deltas }
        \cup { SubSeq(w, 1, n) : w \in valid, n \in CutLengths(size, total) }
        \cup { Uniform(b, total) : b \in Byte }

----------------------------------------------------------------------------
(* Specification SpecValid: one call of validSchedule, step by step *)

IdleFrame ==
    [keySchedule |-> <<>>, size |-> 0, expandedKeySize |-> 0,
     expandedKey |-> <<>>, currentSize |-> 0, rconIteration |-> 1,
     t |-> <<>>, m |-> 0, compared |-> 0, pc |-> "idle", result |-> "none"]

Init ==
    /\ fipsSBox = FipsSBoxTable
    /\ frame = IdleFrame
    /\ windows_version = << 0, 0 >>
    /\ pool_tag = None
    /\ scanner_tag = None
    /\ image = <<>>
    /\ buf = <<>>
    /\ pool_size = 0
    /\ aes = <<>>
    /\ found = <<>>
    /\ i = 0
    /\ n128 = 0
    /\ n256 = 0
    /\ pc = "load"
    /\ yielded = <<>>
    /\ DUMP_DIR = FALSE
    /\ data = <<>>
    /\ pos = 0
    /\ outfd = <<>>
    /\ files = {}
    /\ failed = 0
    /\ rpc = "start"

\* validSchedule is called with a window
Call ==
    /\ frame.pc = "idle"
    /\ \E shape \in Shapes :
         \E w \in Windows(shape[1], shape[2]) :
            frame' = validScheduleEnter(w, shape[1], shape[2])
    /\ UNCHANGED << fipsSBox, calcVars, renderVars >>

While ==
    /\ frame.pc = "while"
    /\ frame' = validScheduleWhile(frame)
    /\ UNCHANGED << fipsSBox, calcVars, renderVars >>

For ==
    /\ frame.pc = "for"
    /\ frame' = validScheduleFor(frame)
    /\ UNCHANGED << fipsSBox, calcVars, renderVars >>

NextValid == Call \/ While \/ For

SpecValid == Init /\ [][NextValid]_vars

----------------------------------------------------------------------------
(* Claims about validSchedule, checked under SpecValid *)

\* the window of a finished call has exactly the length the call was given
FullWindow == Len(frame.keySchedule) = frame.expandedKeySize

\* C1: on a window of exactly totalLength bytes validSchedule returns True if
\* and only if the bytes keySize .. totalLength-1 of the window are those of
\* the FIPS-197 key expansion of the window's first keySize bytes; it returns
\* False otherwise, and raises nothing.
C1_TrueIffFipsSchedule ==
    (frame.pc = "return" /\ FullWindow) =>
        /\ frame.result \in { "True", "False" }
        /\ (frame.result = "True") <=>
              (Slice(frame.keySchedule, frame.size, frame.expandedKeySize)
               = Slice(FipsKeyExpansion(Slice(frame.keySchedule, 0, frame.size)),
                       frame.size, frame.expandedKeySize))

\* a call on a full AES-256 window has returned True
C1_Witness ==
    /\ frame.pc = "return"
    /\ FullWindow
    /\ frame.size = KeySize256
    /\ frame.result = "True"

\* C5: on a window shorter than totalLength validSchedule returns False and
\* raises no exception.
C5_ShortWindowReturnsFalse ==
    (frame.pc = "return" /\ Len(frame.keySchedule) < frame.expandedKeySize) =>
        frame.result = "False"

\* C9: while the call runs, the recomputed bytes 0 .. currentSize-1 equal the
\* window's; when it returns False it is at the first position p >= keySize
\* whose recomputed byte differs from the window's, exactly the positions
\* keySize .. p were compared, and no byte after p was computed.
C9_ShortCircuit ==
    /\ frame.pc \in { "while", "for" } =>
          \A q \in 1..frame.currentSize :
              frame.expandedKey[q] = frame.keySchedule[q]
    /\ (frame.pc = "return" /\ frame.result = "False") =>
          LET p == frame.currentSize
          IN  /\ p >= frame.size
              /\ frame.expandedKey[p + 1] # frame.keySchedule[p + 1]
              /\ \A q \in 1..p : frame.expandedKey[q] = frame.keySchedule[q]
              /\ \A q \in (p + 2)..frame.expandedKeySize : frame.expandedKey[q] = 0
              /\ frame.compared = (p - frame.size) + 1

\* a call has returned False at a mismatch past the first schedule word
C9_Witness ==
    /\ frame.pc = "return"
    /\ frame.result = "False"
    /\ frame.currentSize > frame.size + 4

----------------------------------------------------------------------------
(* The inputs of calculate: the profile's version and the pools of the image *)

\* (major, minor) of the profiles is_valid_profile accepts
Versions == { << 6, 1 >>, << 6, 2 >>, << 10, 0 >> }

\* Python's a <= b on two tuples of two integers
TupleLeq(a, b) == a[1] < b[1] \/ (a[1] = b[1] /\ a[2] <= b[2])

\* the most seed-and-schedule blocks one pool holds
MaxBlocks == 3

\* a block kind is << keySize, index in the seed table >>
BlockKinds == { << KeySize128, 1 >>, << KeySize128, 2 >>,
                << KeySize256, 1 >>, << KeySize256, 2 >> }

\* the sequences of one to MaxBlocks different block kinds
Layouts ==
    { s \in UNION { [1..n -> BlockKinds] : n \in 1..MaxBlocks } :
        \A a, b \in DOMAIN s : a # b => s[a] # s[b] }

\* << the zero bytes before the first block (the pool header and what
\* follows it), the zero bytes after the last block >>
Pads == { << 8, 8 >>, << 16, 0 >> }

\* the lengths of the pools of one repeated byte
UniformLengths == { 192, 256 }

Zeros(n) == [j \in 1..n |-> 0]

PoolOf(blocks, layout, lead, trail) ==
    LET b(n) == IF n <= Len(layout) THEN blocks[layout[n]] ELSE <<>>
    IN  Zeros(lead) \o b(1) \o b(2) \o b(3) \o b(4) \o Zeros(trail)

\* the pools the scanner can return: its CheckPoolSize check passes only
\* pools of more than MinPoolSize bytes
Pools ==
    LET blocks == [kind \in BlockKinds |-> ValidBlock(SeedTable(kind[1])[kind[2]])]
        built == { PoolOf(blocks, layout, pad[1], pad[2]) :
                     layout \in Layouts, pad \in Pads }
    IN  { p \in built : Len(p) > MinPoolSize }
        \cup { Uniform(b, n) : b \in Byte, n \in UniformLengths }

----------------------------------------------------------------------------
(* Specification Spec: calculate.  pc is "load" before the first statement, *)
(* "scan" at the head of `for addr in scanner.scan(addr_space)`, "sweep128" *)
(* and "sweep256" at the heads of the two inner loops, "filter" at the      *)
(* statements after them, "done" when the generator is exhausted.  An image *)
(* holds one pool; image is what scanner.scan has yet to return.            *)

\* lines 139-152: the version, the tag, the scanner and its checks
Load ==
    /\ pc = "load"
    /\ \E v \in Versions :
         /\ windows_version' = v
         /\ pool_tag' = IF TupleLeq(v, << 6, 1 >>) THEN "FVEc" ELSE "Cngb"
    /\ scanner_tag' = "FVEc"
    /\ \E p \in Pools : image' = << p >>
    /\ pc' = "scan"
    /\ UNCHANGED << buf, pool_size, aes, found, i, n128, n256, yielded >>
    /\ UNCHANGED << fipsSBox, validVars, renderVars >>

\* `if self.validSchedule(...)` with the test inverted
SweepHitInverted(window, size, total) == validSchedule(window, size, total) = "False"

\* lines 166, 170: `if self.validSchedule(window, size, total)`
SweepHit(window, size, total) == validSchedule(window, size, total) = "True"

\* whether the call made by a sweep raises
SweepRaises(window, size, total) == validSchedule(window, size, total) = "IndexError"

\* lines 154-163: the scanner returns a pool; zread returns pool_size bytes
NextPool ==
    /\ pc = "scan"
    /\ image # <<>>
    /\ buf' = Head(image)
    /\ pool_size' = Len(Head(image))
    /\ image' = Tail(image)
    /\ aes' = <<>>
    /\ found' = <<>>
    /\ n128' = 0
    /\ n256' = 0
    /\ yielded' = <<>>
    /\ i' = HeaderSkip
    /\ pc' = "sweep128"
    /\ UNCHANGED << windows_version, pool_tag, scanner_tag >>
    /\ UNCHANGED << fipsSBox, validVars, renderVars >>

\* the scanner returns no further pool
Exhausted ==
    /\ pc = "scan"
    /\ image = <<>>
    /\ pc' = "done"
    /\ UNCHANGED << windows_version, pool_tag, scanner_tag, image, buf, pool_size,
                    aes, found, i, n128, n256, yielded >>
    /\ UNCHANGED << fipsSBox, validVars, renderVars >>

\* lines 165-167: one pass of `for i in range(8, pool_size - 176)`, or its end
Sweep128 ==
    /\ pc = "sweep128"
    /\ IF i < pool_size - ScheduleSize128
       THEN LET window == Slice(buf, i, i + ScheduleSize128)
                hit == SweepHit(window, KeySize128, ScheduleSize128)
            IN  /\ aes' = IF hit THEN Append(aes, Slice(buf, i, i + KeySize128))
                          ELSE aes
                /\ found' = IF hit
                            THEN Append(found, [offset |-> i, size |-> KeySize128])
                            ELSE found
                /\ n128' = n128 + 1
                /\ i' = i + 1
                /\ pc' = IF SweepRaises(window, KeySize128, ScheduleSize128)
                         THEN "raised" ELSE pc
       ELSE /\ i' = HeaderSkip
            /\ pc' = "sweep256"
            /\ UNCHANGED << aes, found, n128 >>
    /\ UNCHANGED << windows_version, pool_tag, scanner_tag, image, buf, pool_size,
                    n256, yielded >>
    /\ UNCHANGED << fipsSBox, validVars, renderVars >>

\* lines 169-171: one pass of `for i in range(8, pool_size - 240)`, or its end
Sweep256 ==
    /\ pc = "sweep256"
    /\ IF i < pool_size - ScheduleSize256
       THEN LET window == Slice(buf, i, i + ScheduleSize256)
                hit == SweepHit(window, KeySize256, ScheduleSize256)
            IN  /\ aes' = IF hit THEN Append(aes, Slice(buf, i, i + KeySize256))
                          ELSE aes
                /\ found' = IF hit
                            THEN Append(found, [offset |-> i, size |-> KeySize256])
                            ELSE found
                /\ n256' = n256 + 1
                /\ i' = i + 1
                /\ pc' = IF SweepRaises(window, KeySize256, ScheduleSize256)
                         THEN "raised" ELSE pc
       ELSE /\ pc' = "filter"
            /\ UNCHANGED << aes, found, n256, i >>
    /\ UNCHANGED << windows_version, pool_tag, scanner_tag, image, buf, pool_size,
                    n128, yielded >>
    /\ UNCHANGED << fipsSBox, validVars, renderVars >>

\* the filter without its upper bound: `if 0 < len(aes)`
FilterNoUpperBound ==
    /\ pc = "filter"
    /\ yielded' = IF 0 < Len(aes)
                  THEN << [fvek |-> aes[1],
                           tweak |-> IF Len(aes) > 1 THEN aes[2] ELSE <<>>] >>
                  ELSE <<>>
    /\ pc' = "scan"
    /\ UNCHANGED << windows_version, pool_tag, scanner_tag, image, buf, pool_size,
                    aes, found, i, n128, n256 >>
    /\ UNCHANGED << fipsSBox, validVars, renderVars >>

\* lines 173-176: the pool is yielded when it holds one or two keys
Filter ==
    /\ pc = "filter"
    /\ yielded' = IF 0 < Len(aes) /\ Len(aes) <= 2
                  THEN << [fvek |-> aes[1],
                           tweak |-> IF Len(aes) > 1 THEN aes[2] ELSE <<>>] >>
                  ELSE <<>>
    /\ pc' = "scan"
    /\ UNCHANGED << windows_version, pool_tag, scanner_tag, image, buf, pool_size,
                    aes, found, i, n128, n256 >>
    /\ UNCHANGED << fipsSBox, validVars, renderVars >>

Next == Load \/ NextPool \/ Exhausted \/ Sweep128 \/ Sweep256 \/ Filter

Spec == Init /\ [][Next]_vars

----------------------------------------------------------------------------
(* Claims about calculate, checked under Spec *)

\* the pool has been swept and filtered
Swept == pc \in { "scan", "done" } /\ buf # <<>>

\* every byte of the pool is the same
UniformPool == buf # <<>> /\ \A q \in DOMAIN buf : buf[q] = buf[1]

\* C2: a pool is reported, as one result, exactly when the two sweeps together
\* found 1 or 2 Candidate Matches; with 0 or with 3 or more nothing of it is
\* reported, and nothing is reported before both sweeps have ended.
C2_ReportedIffOneOrTwo ==
    /\ Swept => ((Len(yielded) = 1) <=> (Len(found) \in { 1, 2 }))
    /\ pc \in { "sweep128", "sweep256", "filter" } => yielded = <<>>

\* a pool with three matches has been filtered, and nothing was reported
C2_Witness == Swept /\ Len(found) >= 3 /\ yielded = <<>>

\* C3: the 128-bit sweep tests every offset 8 <= i <= len(buffer) - 176 and the
\* 256-bit sweep every offset 8 <= i <= len(buffer) - 240, so a valid block
\* that starts at offset 8 or later and ends at the last byte of the buffer
\* is recorded as a Candidate Match.
C3_LastOffsetTested ==
    pc = "filter" =>
        /\ n128 = Max(0, ((pool_size - ScheduleSize128) - HeaderSkip) + 1)
        /\ n256 = Max(0, ((pool_size - ScheduleSize256) - HeaderSkip) + 1)
        /\ \A shape \in Shapes :
              LET o == pool_size - shape[2]
              IN  (/\ o >= HeaderSkip
                   /\ validSchedule(Slice(buf, o, pool_size), shape[1], shape[2])
                        = "True")
                  => \E q \in DOMAIN found :
                        found[q] = [offset |-> o, size |-> shape[1]]

\* the key bytes of a match
KeyAt(match) == Slice(buf, match.offset, match.offset + match.size)

\* C4: when exactly two Candidate Matches are found in a pool, whatever their
\* key sizes, the primary key is the match at the lower offset and the
\* secondary key the match at the higher offset.
C4_PrimaryIsLowerOffset ==
    (Swept /\ Len(found) = 2 /\ yielded # <<>>) =>
        LET lo == IF found[1].offset <= found[2].offset THEN found[1] ELSE found[2]
            hi == IF found[1].offset <= found[2].offset THEN found[2] ELSE found[1]
        IN  yielded[1].fvek = KeyAt(lo) /\ yielded[1].tweak = KeyAt(hi)

\* C6: in every result the primary key is 16 or 32 bytes long and the
\* secondary key is empty or as long as the primary key.
C6_KeyLengths ==
    yielded # <<>> =>
        /\ Len(yielded[1].fvek) \in { KeySize128, KeySize256 }
        /\ yielded[1].tweak = <<>> \/ Len(yielded[1].tweak) = Len(yielded[1].fvek)

\* C7: a pool whose bytes are all the same byte yields no Candidate Match in
\* either sweep, and no result.
C7_UniformNoMatch ==
    UniformPool => (found = <<>> /\ aes = <<>> /\ yielded = <<>>)

\* both sweeps have run over a pool of 0xFF bytes
C7_Witness ==
    /\ UniformPool
    /\ buf[1] = 255
    /\ pc = "scan"
    /\ n128 > 0
    /\ n256 > 0

\* C10: the tag the scanner is given is decided by the version: 'FVEc' when
\* (major, minor) <= (6, 1), 'Cngb' for every later version.
C10_TagByVersion ==
    pc # "load" =>
        scanner_tag = IF TupleLeq(windows_version, << 6, 1 >>) THEN "FVEc" ELSE "Cngb"

----------------------------------------------------------------------------
(* render_text.  A string is modelled as a sequence of one-character        *)
(* strings, outfd as the sequence of the writes made to it (each the tuple   *)
(* of the pieces of the string written), and the dump directory as the set  *)
(* of its files, each a path and its content.                               *)

HexDigits == << "0", "1", "2", "3", "4", "5", "6", "7",
                "8", "9", "a", "b", "c", "d", "e", "f" >>

\* '{:02x}'.format(b) for a byte b
Hex02(b) == << HexDigits[(b \div 16) + 1], HexDigits[(b % 16) + 1] >>

\* the hexadecimal digits of n, at least width of them, zero-padded
RECURSIVE HexPadded(_, _)
HexPadded(n, width) ==
    IF n < 16 /\ width <= 1 THEN << HexDigits[n + 1] >>
    ELSE HexPadded(n \div 16, width - 1) \o << HexDigits[(n % 16) + 1] >>

\* '{0:#010x}'.format(n): "0x" and the digits, ten characters at least
Hex010(n) == << "0", "x" >> \o HexPadded(n, 8)

\* ''.join('{:02x}'.format(ord(c)) for c in key)
HexKey(key) == [q \in 1..(2 * Len(key)) |-> Hex02(key[(q + 1) \div 2])[((q + 1) % 2) + 1]]

\* Python's a < b on two strings of bytes
StrLess(a, b) ==
    \E q \in 1..(Min(Len(a), Len(b)) + 1) :
        /\ \A r \in 1..(q - 1) : a[r] = b[r]
        /\ IF q > Len(a) THEN q <= Len(b)
           ELSE q <= Len(b) /\ a[q] < b[q]

\* x put into the sorted sequence s behind every entry whose key is not greater
InsertByFvek(s, x) ==
    LET n == Cardinality({ q \in DOMAIN s : ~StrLess(x.fvek, s[q].fvek) })
    IN  SubSeq(s, 1, n) \o << x >> \o SubSeq(s, n + 1, Len(s))

\* sorted(data, key = lambda x: x[1]): a stable sort by the primary key
RECURSIVE sorted(_)
sorted(s) ==
    IF s = <<>> THEN <<>>
    ELSE InsertByFvek(sorted(SubSeq(s, 1, Len(s) - 1)), s[Len(s)])

\* the most results render_text is given
MaxResults == 2

\* the results calculate can yield: the address of a pool, a primary key, and
\* a secondary key or the empty string
Results ==
    [offset : { 4096, 8192, 12288 },
     fvek : { SeedTable16[1], SeedTable16[2], SeedTable32[1] },
     tweak : { <<>>, SeedTable16[2] }]

\* calculate yields a pool once at most: the addresses of the results differ
RenderInputs ==
    { s \in UNION { [1..n -> Results] : n \in 0..MaxResults } :
        \A a, b \in DOMAIN s : a # b => s[a].offset # s[b].offset }

\* os.path.join(DUMP_DIR, '{0:#010x}.fvek'.format(offset)), below DUMP_DIR
PathOf(x) == Hex010(x.offset) \o << ".", "f", "v", "e", "k" >>

AddressLine(x) == << "Address : ", Hex010(x.offset), "\n" >>

\* lines 184-188: what is written before the file is opened
KeyLines(x) ==
    << AddressLine(x),
       << "Cipher  : AES-", Len(x.fvek) * 8, "\n" >>,
       << "FVEK    : ", HexKey(x.fvek), "\n" >> >>
    \o IF x.tweak # <<>> THEN << << "TWEAK   : ", HexKey(x.tweak), "\n" >> >>
       ELSE <<>>

\* lines 179-181: the results are sorted, and a newline is written
RenderStart ==
    /\ rpc = "start"
    /\ \E input \in RenderInputs : data' = sorted(input)
    /\ \E d \in BOOLEAN : DUMP_DIR' = d
    /\ outfd' = << << "\n" >> >>
    /\ pos' = 1
    /\ rpc' = "loop"
    /\ UNCHANGED << files, failed >>
    /\ UNCHANGED << fipsSBox, validVars, calcVars >>

\* lines 183-198: one pass of the for loop, the file (if any) written
RenderResult ==
    /\ rpc = "loop"
    /\ pos <= Len(data)
    /\ LET x == data[pos]
       IN  IF DUMP_DIR
           THEN /\ files' = { f \in files : f.path # PathOf(x) }
                            \cup { [path |-> PathOf(x), content |-> x.fvek \o x.tweak] }
                /\ outfd' = outfd \o KeyLines(x)
                             \o << << "FVEK dumped to file: ", PathOf(x), "\n" >>,
                                   << "\n" >> >>
           ELSE /\ files' = files
                /\ outfd' = outfd \o KeyLines(x) \o << << "\n" >> >>
    /\ pos' = pos + 1
    /\ UNCHANGED << DUMP_DIR, data, failed, rpc >>
    /\ UNCHANGED << fipsSBox, validVars, calcVars >>

\* lines 184-193: a pass in which open() raises; nothing catches it
RenderOpenFails ==
    /\ rpc = "loop"
    /\ pos <= Len(data)
    /\ DUMP_DIR
    /\ outfd' = outfd \o KeyLines(data[pos])
    /\ failed' = pos
    /\ rpc' = "raised"
    /\ UNCHANGED << DUMP_DIR, data, pos, files >>
    /\ UNCHANGED << fipsSBox, validVars, calcVars >>

\* the for loop ends, and render_text returns
RenderEnd ==
    /\ rpc = "loop"
    /\ pos > Len(data)
    /\ rpc' = "done"
    /\ UNCHANGED << DUMP_DIR, data, pos, outfd, files, failed >>
    /\ UNCHANGED << fipsSBox, validVars, calcVars >>

NextRender == RenderStart \/ RenderResult \/ RenderOpenFails \/ RenderEnd

SpecRender == Init /\ [][NextRender]_vars

----------------------------------------------------------------------------
(* Claim about render_text, checked under SpecRender *)

\* C8: when the key file of one result cannot be written, every later result
\* is still rendered to the output and its key file is still written.
C8_LaterResultsSurviveFailure ==
    (rpc \in { "done", "raised" } /\ failed # 0) =>
        \A q \in (failed + 1)..Len(data) :
            /\ \E n \in DOMAIN outfd : outfd[n] = AddressLine(data[q])
            /\ \E f \in files : f.path = PathOf(data[q])

====
